---- MODULE Spec2Model ----
(***************************************************************************)
(* Model of the dsynth wavetable generators:                               *)
(*   version 1  src/scripts/generate_wavetables.py     (scipy writer)      *)
(*   version 2  src/scripts/generate_wavetables_v2.py  (wave-module writer)*)
(* Both scripts build 20 single-cycle tables one after the other and hand  *)
(* each to save_wavetable, which normalizes, encodes and writes it.        *)
(*                                                                         *)
(* Numbers.  A sample is an exact rational <<n, d>> (d > 0, lowest terms). *)
(* A built (un-normalized) buffer is measured in multiples of 1e-10, the   *)
(* only absolute magnitude the pipeline contains (v2 line 19), so that     *)
(* samples / (max + 1e-10) is the exact ratio n / (max + 1).  The values   *)
(* of the trigonometric recipes themselves are inputs of the model: every  *)
(* build draws its buffer from the bounded set Buffers(N).  The scripts    *)
(* fix N = 2048; the model runs them for every configured count in         *)
(* SampleCounts, which includes the counts 0 and -1.                       *)
(* The pseudo random generator behind np.random is an abstract generator   *)
(* over RngMod states; what is modelled of it is who seeds it and when.    *)
(*                                                                         *)
(* Spec runs a whole script.  RecipeSpec runs the recipes of 11_Stairs and *)
(* 17_Binary statement by statement, from the state the run is in when     *)
(* generate_unique reaches them up to their save_wavetable call, for up to *)
(* MaxRecipeSamples samples; there a sample is a rational in its own unit  *)
(* and the sine sums are drawn from the lines of Ramp.                     *)
(***************************************************************************)
EXTENDS Integers, Sequences, FiniteSets, TLC

\* ------------------------------------------------------------------ bounds
\* largest configured sample count explored (the scripts set 2048)
MaxSamples == 2
\* largest raw amplitude of a built sample, in multiples of 1e-10
MaxAmp == 1
\* number of states of the abstract random generator
RngMod == 5
\* the OS-entropy states the generator may start in are 0..MaxEntropy
MaxEntropy == 1
\* largest sample count for which single recipes are run operation by operation
MaxRecipeSamples == 17
\* the values a recipe's sine sums take are the multiples of 1/RampDen ...
RampDen == 24
\* ... that lie on a line of slope at most MaxSlope/RampDen per sample
MaxSlope == 3

\* ------------------------------------------------------- program constants
SAMPLE_RATE == 44100
\* wav.setsampwidth(4)
SAMPWIDTH == 4
\* wav.setnchannels(1); scipy derives 1 from a one-dimensional array
NCHANNELS == 1
\* len(struct.pack('<f', x)) and np.float32 itemsize
Float32Bytes == 4
\* the 1e-10 added to the peak in v2, in the unit of the raw samples (1e-10)
NormEps == 1
\* np.random.seed(42) of 12_Fractal, np.random.seed(45) of 19_Breath (v2)
FRACTAL_SEED == 42
BREATH_SEED == 45
\* for h in range(1, 65): two draws per partial; for h in range(1, 129): one
FRACTAL_PARTIALS == 64
BREATH_PARTIALS == 128
\* wave.py WAVE_FORMAT_PCM, scipy WAVE_FORMAT.IEEE_FLOAT
WAVE_FORMAT_PCM == 1
WAVE_FORMAT_IEEE_FLOAT == 3

OUTPUT_DIR == "assets/wavetables"

\* --------------------------------------------------------------- rationals
Abs(x) == IF x < 0 THEN -x ELSE x

RECURSIVE GCD(_, _)
GCD(a, b) == IF b = 0 THEN a ELSE GCD(b, a % b)

\* n/d in lowest terms with a positive denominator
Frac(n, d) ==
    LET g == GCD(Abs(n), Abs(d))
        s == IF d < 0 THEN -1 ELSE 1
    IN  <<(s * n) \div g, Abs(d) \div g>>

FracDiv(x, y) == Frac(x[1] * y[2], x[2] * y[1])
FracAdd(x, y) == Frac(x[1] * y[2] + y[1] * x[2], x[2] * y[2])
FracAbs(x) == <<Abs(x[1]), x[2]>>
FracLess(x, y) == x[1] * y[2] < y[1] * x[2]
Zero == <<0, 1>>
One == <<1, 1>>

Pow2(k) == 2 ^ k

\* ---------------------------------------------------------------- catalog
\* A table name "01_Pure_Sine" is kept as <<first digit, second digit, rest>>.
ClassicNames ==
    << <<0, 1, "Pure_Sine">>, <<0, 2, "Sawtooth">>, <<0, 3, "Square">>,
       <<0, 4, "Triangle">>, <<0, 5, "PWM_25">>, <<0, 6, "PWM_12">>,
       <<0, 7, "PPG_Classic">>, <<0, 8, "Hollow">>, <<0, 9, "Vocal_Formant">>,
       <<1, 0, "Bass_Guitar">> >>

UniqueNamesDuplicateIndex ==
    << <<1, 1, "Stairs">>, <<1, 1, "Fractal">>, <<1, 3, "Crystal">>,
       <<1, 4, "Earthquake">>, <<1, 5, "Laser">>, <<1, 6, "Vowel_Morph">>,
       <<1, 7, "Binary">>, <<1, 8, "Alien">>, <<1, 9, "Breath">>,
       <<2, 0, "Harmonic_Decay">> >>

UniqueNames ==
    << <<1, 1, "Stairs">>, <<1, 2, "Fractal">>, <<1, 3, "Crystal">>,
       <<1, 4, "Earthquake">>, <<1, 5, "Laser">>, <<1, 6, "Vowel_Morph">>,
       <<1, 7, "Binary">>, <<1, 8, "Alien">>, <<1, 9, "Breath">>,
       <<2, 0, "Harmonic_Decay">> >>

\* generate_classic() runs first, generate_unique() second
Catalog == ClassicNames \o UniqueNames

Entries == 1..Len(Catalog)

\* the two-digit prefix of a name, read as a number
IndexPrefix(name) == 10 * name[1] + name[2]

\* os.path.join(OUTPUT_DIR, f"{name}.wav")
FilePath(name) == <<OUTPUT_DIR, name, ".wav">>

\* ------------------------------------------------------------ phase clock
\* np.linspace(0, 1, num, endpoint=False) raises ValueError for num < 0
LinspaceRaises(num) == num < 0

LinspaceEndpoint(start, stop, num) ==
    IF num <= 0 THEN <<>>
    ELSE [i \in 1..num |->
            IF num = 1 THEN Frac(start, 1)
            ELSE FracAdd(Frac(start, 1), Frac((i - 1) * (stop - start), num - 1))]

\* np.linspace(start, stop, num, endpoint=False): start + i * (stop-start)/num
Linspace(start, stop, num) ==
    IF num <= 0 THEN <<>>
    ELSE [i \in 1..num |->
            FracAdd(Frac(start, 1), Frac((i - 1) * (stop - start), num))]

\* ------------------------------------------------------------- normalizer
RECURSIVE MaxAbsFrom(_, _)
MaxAbsFrom(s, i) ==
    IF i = Len(s) THEN FracAbs(s[i])
    ELSE LET rest == MaxAbsFrom(s, i + 1)
         IN  IF FracLess(rest, FracAbs(s[i])) THEN FracAbs(s[i]) ELSE rest

\* np.max(np.abs(samples)); raises ValueError on an empty array
MaxAbsRaises(s) == Len(s) = 0
MaxAbs(s) == MaxAbsFrom(s, 1)

\* v1 normalize(): divide by the peak when it is positive, else unchanged
NormalizeV1(s) ==
    LET max_val == MaxAbs(s)
    IN  IF FracLess(Zero, max_val)
        THEN [i \in 1..Len(s) |-> FracDiv(s[i], max_val)]
        ELSE s

\* v2 save_wavetable line 19: samples / (np.max(np.abs(samples)) + 1e-10)
NormalizeV2(s) ==
    LET denom == FracAdd(MaxAbs(s), Frac(NormEps, 1))
    IN  [i \in 1..Len(s) |-> FracDiv(s[i], denom)]

Normalize(v, s) == IF v = 1 THEN NormalizeV1(s) ELSE NormalizeV2(s)

\* ---------------------------------------------------------- float32 encoder
\* The binary32 value nearest to n/d, as sign, 24-bit significand and
\* exponent: value = sign * mant * 2^(-shift), 2^23 <= mant < 2^24.
\* (Normal range only; the samples of the model are small rationals.)
\* the least shift k' >= k with m * 2^(k' - k) / d >= 2^23, m being n * 2^k
RECURSIVE Float32Shift(_, _, _)
Float32Shift(m, d, k) ==
    IF m >= d * Pow2(23) THEN k ELSE Float32Shift(2 * m, d, k + 1)

Float32(x) ==
    IF x[1] = 0 THEN [sign |-> 0, mant |-> 0, shift |-> 0]
    ELSE LET n == Abs(x[1])
             d == x[2]
             k == Float32Shift(n, d, 0)
             m == (2 * n * Pow2(k) + d) \div (2 * d)
         IN  IF m = Pow2(24)
             THEN [sign |-> IF x[1] < 0 THEN -1 ELSE 1, mant |-> Pow2(23), shift |-> k - 1]
             ELSE [sign |-> IF x[1] < 0 THEN -1 ELSE 1, mant |-> m, shift |-> k]

\* samples.astype(np.float32) / struct.pack('<f', sample) for each sample
EncodeAll(s) == [i \in 1..Len(s) |-> Float32(s[i])]

\* ------------------------------------------------------- random generator
\* np.random.seed(s): the state is a function of s alone
SeedState(s) == s % RngMod

\* the generator k steps on (a counter generator: its only modelled property
\* is that what it yields depends on the state it is in)
RngAdvance(state, k) == (state + k) % RngMod

\* n successive np.random.uniform draws: the values and the state left behind
Draws(state, n) ==
    [out |-> [i \in 1..n |-> RngAdvance(state, i - 1)], rng |-> RngAdvance(state, n)]

\* What entry e of version v asks of np.random; n is SAMPLES_PER_CYCLE.
\*   v1 14_Earthquake, 19_Breath: np.random.uniform(-1, 1, n), never seeded
\*   v2 12_Fractal: seed(42), two draws per partial; 19_Breath: seed(45)
NoiseOp(v, e, n) ==
    IF v = 1 /\ e \in {14, 19} THEN [noisy |-> TRUE, seeded |-> FALSE, seed |-> 0, count |-> n]
    ELSE IF v = 2 /\ e = 12
      THEN [noisy |-> TRUE, seeded |-> TRUE, seed |-> FRACTAL_SEED, count |-> 2 * FRACTAL_PARTIALS]
    ELSE IF v = 2 /\ e = 19
      THEN [noisy |-> TRUE, seeded |-> TRUE, seed |-> BREATH_SEED, count |-> BREATH_PARTIALS]
    ELSE [noisy |-> FALSE, seeded |-> FALSE, seed |-> 0, count |-> 0]

\* The random part of building entry e with the global generator in `state`.
NoiseBuild(v, e, n, state) ==
    LET op == NoiseOp(v, e, n)
        s0 == IF op.seeded THEN SeedState(op.seed) ELSE state
    IN  IF op.noisy THEN Draws(s0, op.count) ELSE [out |-> <<>>, rng |-> state]

\* The state np.random is in when entry e starts, had the run begun with
\* entropy ent and had the entries of `skip` not been built.
RECURSIVE RngBefore(_, _, _, _, _)
RngBefore(v, e, n, ent, skip) ==
    IF e = 1 THEN ent
    ELSE LET prev == RngBefore(v, e - 1, n, ent, skip)
         IN  IF (e - 1) \in skip THEN prev
             ELSE NoiseBuild(v, e - 1, n, prev).rng

\* what np.random gives entry e in that run
NoiseOfRun(v, e, n, ent, skip) ==
    NoiseBuild(v, e, n, RngBefore(v, e, n, ent, skip)).out

\* ------------------------------------------------------------ WAV writers
NoFmt == [size |-> 0, tag |-> 0, channels |-> 0, rate |-> 0, byteRate |-> 0,
          blockAlign |-> 0, bits |-> 0]

\* the file wave.open(filepath, 'w') leaves: created, nothing written yet
EmptyFile == [chunks |-> <<>>, riffSize |-> 0, fmt |-> NoFmt, dataSize |-> 0,
              dataLen |-> 0, closed |-> FALSE]

\* wave.Wave_write._write_header(initlength) after setnchannels(1),
\* setsampwidth(4), setframerate(SAMPLE_RATE), setnframes(nframes)
WaveWriteHeader(nframes, initlength) ==
    LET frames == IF nframes = 0 THEN initlength \div (NCHANNELS * SAMPWIDTH) ELSE nframes
        datalength == frames * NCHANNELS * SAMPWIDTH
    IN  [chunks |-> <<"RIFF", "fmt ", "data">>,
         riffSize |-> 36 + datalength,
         fmt |-> [size |-> 16, tag |-> WAVE_FORMAT_PCM, channels |-> NCHANNELS,
                  rate |-> SAMPLE_RATE,
                  byteRate |-> NCHANNELS * SAMPLE_RATE * SAMPWIDTH,
                  blockAlign |-> NCHANNELS * SAMPWIDTH, bits |-> SAMPWIDTH * 8],
         dataSize |-> datalength, dataLen |-> 0, closed |-> FALSE]

WavePatchHeaderFileSize(f) ==
    IF f.dataSize = f.dataLen THEN f
    ELSE [f EXCEPT !.riffSize = 44 + f.dataLen, !.dataSize = f.dataLen]

\* wave.Wave_write._patchheader(): both length fields follow the bytes written
WavePatchHeader(f) ==
    IF f.dataSize = f.dataLen THEN f
    ELSE [f EXCEPT !.riffSize = 36 + f.dataLen, !.dataSize = f.dataLen]

\* wav.writeframes(b) with len(b) = nbytes: header on first use, the bytes,
\* then the header patched when it disagrees with what has been written
WaveWriteFrames(f, nframes, nbytes) ==
    LET h == IF f.chunks = <<>> THEN WaveWriteHeader(nframes, nbytes) ELSE f
    IN  WavePatchHeader([h EXCEPT !.dataLen = h.dataLen + nbytes])

\* Wave_write.close() at the end of the with block
WaveClose(f, nframes) ==
    LET h == IF f.chunks = <<>> THEN WaveWriteHeader(nframes, 0) ELSE f
    IN  [WavePatchHeader(h) EXCEPT !.closed = TRUE]

\* scipy.io.wavfile.write(filepath, SAMPLE_RATE, float32 array of n samples):
\* a float file gets an 18-byte format chunk (cbSize = 0) and a fact chunk,
\* and the RIFF size is patched to the size of the file less 8
WavfileWrite(n) ==
    LET nbytes == n * Float32Bytes
        fmtSize == 18
        factSize == 4
    IN  [chunks |-> <<"RIFF", "fmt ", "fact", "data">>,
         riffSize |-> 4 + (8 + fmtSize) + (8 + factSize) + (8 + nbytes),
         fmt |-> [size |-> fmtSize, tag |-> WAVE_FORMAT_IEEE_FLOAT, channels |-> NCHANNELS,
                  rate |-> SAMPLE_RATE,
                  byteRate |-> SAMPLE_RATE * Float32Bytes * NCHANNELS,
                  blockAlign |-> NCHANNELS * Float32Bytes, bits |-> Float32Bytes * 8],
         dataSize |-> nbytes, dataLen |-> nbytes, closed |-> TRUE]

\* ------------------------------------------------------------- filesystem
MakeDirsNoExistOk(d, ok) ==
    IF d = "present" THEN [dir |-> "present", raised |-> TRUE]
    ELSE IF ok THEN [dir |-> "present", raised |-> FALSE]
    ELSE [dir |-> "absent", raised |-> TRUE]

\* os.makedirs(OUTPUT_DIR, exist_ok=True); ok: the OS lets the directory be made
MakeDirs(d, ok) ==
    IF d = "present" THEN [dir |-> "present", raised |-> FALSE]
    ELSE IF ok THEN [dir |-> "present", raised |-> FALSE]
    ELSE [dir |-> "absent", raised |-> TRUE]

\* ------------------------------------------------------------- save steps
SaveStepsWriteFirst(v) ==
    IF v = 1 THEN <<"makedirs", "write", "normalize", "print">>
    ELSE <<"makedirs", "open", "frames", "close", "normalize", "print">>

\* the statements of save_wavetable, in the order each version runs them
SaveSteps(v) ==
    IF v = 1 THEN <<"makedirs", "normalize", "write", "print">>
    ELSE <<"normalize", "makedirs", "open", "frames", "close", "print">>

\* ---------------------------------------------------------------- recipes
\* np.floor of the rational p/q (q > 0)
Floor(p, q) == p \div q

\* np.round of the rational p/q (q > 0): to the nearest integer, a tie to the
\* even one
Round(p, q) ==
    LET f == p \div q
        r == p % q
    IN  IF 2 * r < q THEN f
        ELSE IF 2 * r > q THEN f + 1
        ELSE IF f % 2 = 0 THEN f ELSE f + 1

\* v2 lines 114 and 210: buf = np.round(buf * L) / L
Quantize(buf, L) ==
    [i \in 1..Len(buf) |-> Frac(Round(buf[i][1] * L, buf[i][2]), L)]

\* v1 line 101: np.floor(x * L) / L
QuantizeFloor(buf, L) ==
    [i \in 1..Len(buf) |-> Frac(Floor(buf[i][1] * L, buf[i][2]), L)]

SampleHoldLast(buf, K) ==
    LET n == Len(buf)
        Min(a, b) == IF a < b THEN a ELSE b
    IN  [j \in 1..n |-> buf[Min(((j - 1) \div K) * K + K, n)]]

\* v2 lines 207-208, the loop from block start i (0-based) on:
\*   for i in range(0, N, K): buf[i:min(i+K, N)] = buf[i]
\* each turn reads buf[i] from the buffer as the turns before have left it
RECURSIVE SampleHoldFrom(_, _, _)
SampleHoldFrom(buf, K, i) ==
    LET n == Len(buf)
        stop == IF i + K < n THEN i + K ELSE n
    IN  IF i >= n THEN buf
        ELSE SampleHoldFrom([j \in 1..n |-> IF i < j /\ j <= stop THEN buf[i + 1]
                                            ELSE buf[j]],
                            K, i + K)

SampleHold(buf, K) == SampleHoldFrom(buf, K, 0)

\* np.sign, per sample
Sign(buf) ==
    [i \in 1..Len(buf) |->
        IF buf[i][1] > 0 THEN One ELSE IF buf[i][1] < 0 THEN <<-1, 1>> ELSE Zero]

\* np.zeros(n)
Zeros(n) == [i \in 1..n |-> Zero]

\* buf + other, per sample
AddBuffers(buf, other) == [i \in 1..Len(buf) |-> FracAdd(buf[i], other[i])]

\* the values a sum of sine partials takes over the phase array are inputs of
\* the model: n values on a line, a/RampDen + i * b/RampDen
Ramp(a, b, n) == [i \in 1..n |-> Frac(a + (i - 1) * b, RampDen)]

\* the recipes that quantize or hold, as the operations they apply in order
\* (v2: 11_Stairs lines 110-118, 17_Binary lines 202-213;
\*  v1: 11_Stairs line 101, 17_Binary line 146).  arg is the level count of
\* a quantizer and the block length of a hold; for a sum of sine partials it
\* bounds the values drawn for it: its first sample is within arg/RampDen
STAIRS == 11
BINARY == 17
DOWNSAMPLE == 8

Recipe(v, e) ==
    IF v = 2
    THEN IF e = STAIRS
         THEN <<[op |-> "zeros", arg |-> 0], [op |-> "add", arg |-> RampDen],
                [op |-> "quantize", arg |-> 32], [op |-> "add", arg |-> 1]>>
         ELSE <<[op |-> "zeros", arg |-> 0], [op |-> "add", arg |-> RampDen],
                [op |-> "samplehold", arg |-> DOWNSAMPLE],
                [op |-> "quantize", arg |-> 4],
                [op |-> "add", arg |-> 1]>>
    ELSE IF e = STAIRS
         THEN <<[op |-> "sine", arg |-> RampDen], [op |-> "floor", arg |-> 8]>>
         ELSE <<[op |-> "sine", arg |-> RampDen], [op |-> "sign", arg |-> 0]>>

\* ------------------------------------------------------------------ state
VARIABLES
    trace,              \* the operations the recipe in progress has applied,
                        \* each with its buffer before and after
    version,            \* which script runs: 1 or 2
    SAMPLES_PER_CYCLE,  \* the configured sample count
    pc,                 \* "start", "main", "build", "save", "done", "aborted"
    cur,                \* number of the last entry built (0: none yet)
    step,               \* position in SaveSteps(version) while pc = "save"
    phase,              \* the phase array in scope
    wavetable,          \* the buffer the recipe built, as passed to save_wavetable
    samples,            \* save_wavetable's local `samples`
    encoded,            \* float32 values produced so far for this entry
    data,               \* payload of the file being written (until save_wavetable returns)
    dir,                \* OUTPUT_DIR: "absent" or "present"
    files,              \* path -> header and lengths of each file created
    rng,                \* state of the global np.random generator
    entropy,            \* the state the OS entropy gave it at import
    noise,              \* entry -> the values np.random gave its recipe
    saved,              \* names passed to save_wavetable, in call order
    stages,             \* what has happened to the current entry, in order
    phases,             \* the phase arrays builds have used
    lastMk,             \* the last os.makedirs call: dir before, after, raised
    err                 \* the exception that ended the run, "" if none

vars == <<trace, version, SAMPLES_PER_CYCLE, pc, cur, step, phase, wavetable, samples,
          encoded, data, dir, files, rng, entropy, noise, saved, stages, phases,
          lastMk, err>>

SampleCounts == -1..MaxSamples
RawSamples == {<<k, 1>> : k \in -MaxAmp..MaxAmp}
Buffers(n) == IF n = 0 THEN {<<>>} ELSE [1..n -> RawSamples]
NoMk == [before |-> "none", after |-> "none", raised |-> FALSE]

Init ==
    /\ trace = <<>>
    /\ version \in {1, 2}
    /\ SAMPLES_PER_CYCLE \in SampleCounts
    /\ pc = "start"
    /\ cur = 0
    /\ step = 0
    /\ phase = <<>>
    /\ wavetable = <<>>
    /\ samples = <<>>
    /\ encoded = <<>>
    /\ data = <<>>
    /\ dir \in {"absent", "present"}
    /\ files = <<>>
    /\ rng \in 0..MaxEntropy
    /\ entropy = rng
    /\ noise = <<>>
    /\ saved = <<>>
    /\ stages = <<>>
    /\ phases = {}
    /\ lastMk = NoMk
    /\ err = ""

CurStep == IF pc = "save" THEN SaveSteps(version)[step] ELSE "none"
CurPath == FilePath(Catalog[cur])

\* an uncaught exception: traceback, the interpreter exits
Abort(e) == pc' = "aborted" /\ err' = e

\* where control goes when step `step` of save_wavetable has run
AfterStep ==
    IF step < Len(SaveSteps(version))
    THEN pc' = "save" /\ step' = step + 1
    ELSE /\ step' = 0
         /\ pc' = IF cur = Len(Catalog) THEN "done"
                  ELSE IF cur = Len(ClassicNames) THEN "main"
                  ELSE "build"

\* module level: v1 line 34 computes the phase array shared by all generators
ModuleInit ==
    /\ pc = "start"
    /\ IF version = 1
       THEN IF LinspaceRaises(SAMPLES_PER_CYCLE)
            THEN Abort("ValueError:linspace") /\ UNCHANGED phase
            ELSE /\ phase' = Linspace(0, 1, SAMPLES_PER_CYCLE)
                 /\ pc' = "main" /\ UNCHANGED err
       ELSE pc' = "main" /\ UNCHANGED <<phase, err>>
    /\ UNCHANGED <<trace, version, SAMPLES_PER_CYCLE, cur, step, wavetable, samples, encoded,
                   data, dir, files, rng, entropy, noise, saved, stages, phases, lastMk>>

\* __main__ calls generate_classic(), then generate_unique(); v2 computes the
\* phase array at the top of each (lines 47 and 105)
EnterGenerate ==
    /\ pc = "main"
    /\ IF version = 2
       THEN IF LinspaceRaises(SAMPLES_PER_CYCLE)
            THEN Abort("ValueError:linspace") /\ UNCHANGED phase
            ELSE /\ phase' = Linspace(0, 1, SAMPLES_PER_CYCLE)
                 /\ pc' = "build" /\ UNCHANGED err
       ELSE pc' = "build" /\ UNCHANGED <<phase, err>>
    /\ UNCHANGED <<trace, version, SAMPLES_PER_CYCLE, cur, step, wavetable, samples, encoded,
                   data, dir, files, rng, entropy, noise, saved, stages, phases, lastMk>>

\* the recipe of the next entry, then the call save_wavetable(name, buffer)
Build ==
    /\ pc = "build"
    /\ LET e == cur + 1
           nb == NoiseBuild(version, e, SAMPLES_PER_CYCLE, rng)
       IN  /\ cur' = e
           /\ \E b \in Buffers(Len(phase)) : wavetable' = b
           /\ rng' = nb.rng
           /\ noise' = IF NoiseOp(version, e, SAMPLES_PER_CYCLE).noisy
                       THEN (e :> nb.out) @@ noise ELSE noise
           /\ saved' = Append(saved, Catalog[e])
    /\ phases' = phases \cup {phase}
    /\ samples' = wavetable'
    /\ encoded' = <<>>
    /\ data' = <<>>
    /\ stages' = <<"build">>
    /\ pc' = "save"
    /\ step' = 1
    /\ UNCHANGED <<trace, version, SAMPLES_PER_CYCLE, phase, dir, files, entropy, lastMk, err>>

\* v1 line 28: samples = normalize(samples).astype(np.float32)
\* v2 line 19: samples = samples / (np.max(np.abs(samples)) + 1e-10)
NormalizeStep ==
    /\ CurStep = "normalize"
    /\ IF MaxAbsRaises(samples)
       THEN /\ Abort("ValueError:max")
            /\ UNCHANGED <<samples, encoded, stages, step>>
       ELSE /\ samples' = Normalize(version, samples)
            /\ encoded' = IF version = 1 THEN EncodeAll(samples') ELSE encoded
            /\ stages' = IF version = 1 THEN stages \o <<"normalize", "encode">>
                         ELSE Append(stages, "normalize")
            /\ AfterStep
            /\ UNCHANGED err
    /\ UNCHANGED <<trace, version, SAMPLES_PER_CYCLE, cur, phase, wavetable, data, dir, files,
                   rng, entropy, noise, saved, phases, lastMk>>

\* os.makedirs(OUTPUT_DIR, exist_ok=True)
MakeDirsStep ==
    /\ CurStep = "makedirs"
    /\ \E ok \in BOOLEAN :
         LET r == MakeDirs(dir, ok)
         IN  /\ dir' = r.dir
             /\ lastMk' = [before |-> dir, after |-> r.dir, raised |-> r.raised]
             /\ IF r.raised
                THEN Abort("OSError:makedirs") /\ UNCHANGED <<step, stages>>
                ELSE AfterStep /\ stages' = Append(stages, "makedirs") /\ UNCHANGED err
    /\ UNCHANGED <<trace, version, SAMPLES_PER_CYCLE, cur, phase, wavetable, samples, encoded,
                   data, files, rng, entropy, noise, saved, phases>>

\* v2 line 28: wave.open(filepath, 'w') and the setters of lines 29-33
OpenWav ==
    /\ CurStep = "open"
    /\ \/ /\ dir = "present"
          /\ files' = (CurPath :> EmptyFile) @@ files
          /\ data' = <<>>
          /\ stages' = Append(stages, "open")
          /\ AfterStep
          /\ UNCHANGED err
       \/ /\ Abort("OSError:open")
          /\ UNCHANGED <<files, data, stages, step>>
    /\ UNCHANGED <<trace, version, SAMPLES_PER_CYCLE, cur, phase, wavetable, samples, encoded,
                   dir, rng, entropy, noise, saved, phases, lastMk>>

\* v2 lines 36-37, one turn of the loop:
\* wav.writeframes(struct.pack('<f', sample))
WriteFrame ==
    /\ CurStep = "frames"
    /\ Len(data) < Len(samples)
    /\ LET i == Len(data) + 1
           packed == Float32(samples[i])
       IN  \/ /\ encoded' = Append(encoded, packed)
              /\ data' = Append(data, packed)
              /\ files' = [files EXCEPT ![CurPath] =
                             WaveWriteFrames(@, Len(samples), Float32Bytes)]
              /\ stages' = stages \o <<"encode", "write">>
              /\ IF i = Len(samples) THEN AfterStep ELSE UNCHANGED <<pc, step>>
              /\ UNCHANGED err
           \/ /\ encoded' = Append(encoded, packed)
              /\ stages' = Append(stages, "encode")
              /\ Abort("OSError:write")
              /\ UNCHANGED <<data, files, step>>
    /\ UNCHANGED <<trace, version, SAMPLES_PER_CYCLE, cur, phase, wavetable, samples,
                   dir, rng, entropy, noise, saved, phases, lastMk>>

\* v2: leaving the with block closes the file
CloseWav ==
    /\ CurStep = "close"
    /\ files' = [files EXCEPT ![CurPath] = WaveClose(@, Len(samples))]
    /\ stages' = Append(stages, "close")
    /\ AfterStep
    /\ UNCHANGED <<trace, version, SAMPLES_PER_CYCLE, cur, phase, wavetable, samples, encoded,
                   data, dir, rng, entropy, noise, saved, phases, lastMk, err>>

\* v1 line 30: wavfile.write(filepath, SAMPLE_RATE, samples)
WavfileWriteStep ==
    /\ CurStep = "write"
    /\ \/ /\ dir = "present"
          /\ files' = (CurPath :> WavfileWrite(Len(encoded))) @@ files
          /\ data' = encoded
          /\ stages' = Append(stages, "write")
          /\ AfterStep
          /\ UNCHANGED err
       \/ /\ Abort("OSError:write")
          /\ UNCHANGED <<files, data, stages, step>>
    /\ UNCHANGED <<trace, version, SAMPLES_PER_CYCLE, cur, phase, wavetable, samples, encoded,
                   dir, rng, entropy, noise, saved, phases, lastMk>>

\* the closing print of save_wavetable and its return: the call's buffers are
\* dead from here on (the payload on disk is never read again)
PrintDone ==
    /\ CurStep = "print"
    /\ wavetable' = <<>>
    /\ samples' = <<>>
    /\ encoded' = <<>>
    /\ data' = <<>>
    /\ AfterStep
    /\ UNCHANGED <<trace, version, SAMPLES_PER_CYCLE, cur, phase, dir, files, rng, entropy,
                   noise, saved, stages, phases, lastMk, err>>

Next ==
    \/ ModuleInit
    \/ EnterGenerate
    \/ Build
    \/ NormalizeStep
    \/ MakeDirsStep
    \/ OpenWav
    \/ WriteFrame
    \/ CloseWav
    \/ WavfileWriteStep
    \/ PrintDone

Spec == Init /\ [][Next]_vars

\* ------------------------------------------- one recipe, step by step
\* The file save_wavetable leaves for a buffer of n samples.
WrittenFile(v, n) ==
    IF v = 1 THEN WavfileWrite(n)
    ELSE WaveClose(WaveWriteFrames(EmptyFile, n, n * Float32Bytes), n)

\* What save_wavetable did to the entry before, as `stages` records it.
StagesOfSave(v, n) ==
    IF v = 1 THEN <<"build", "makedirs", "normalize", "encode", "write">>
    ELSE <<"build", "normalize", "makedirs", "open">>
         \o [i \in 1..(2 * n) |-> IF i % 2 = 1 THEN "encode" ELSE "write"]
         \o <<"close">>

\* The run at the point where generate_unique starts the recipe of 11_Stairs
\* or of 17_Binary: the entries before it are on disk.
RecipeInit ==
    /\ trace = <<>>
    /\ version \in {1, 2}
    /\ SAMPLES_PER_CYCLE \in 1..MaxRecipeSamples
    /\ pc = "recipe"
    /\ cur \in {STAIRS - 1, BINARY - 1}
    /\ step = 0
    /\ phase = Linspace(0, 1, SAMPLES_PER_CYCLE)
    /\ wavetable = <<>>
    /\ samples = <<>>
    /\ encoded = <<>>
    /\ data = <<>>
    /\ dir = "present"
    /\ files = [p \in {FilePath(Catalog[e]) : e \in 1..cur} |->
                  WrittenFile(version, SAMPLES_PER_CYCLE)]
    /\ entropy \in 0..MaxEntropy
    /\ rng = RngBefore(version, cur + 1, SAMPLES_PER_CYCLE, entropy, {})
    /\ noise = [e \in {k \in 1..cur : NoiseOp(version, k, SAMPLES_PER_CYCLE).noisy} |->
                  NoiseOfRun(version, e, SAMPLES_PER_CYCLE, entropy, {})]
    /\ saved = SubSeq(Catalog, 1, cur)
    /\ stages = StagesOfSave(version, SAMPLES_PER_CYCLE)
    /\ phases = {phase}
    /\ lastMk = [before |-> "present", after |-> "present", raised |-> FALSE]
    /\ err = ""

RecipeOps == Recipe(version, cur + 1)
NextOp == RecipeOps[Len(trace) + 1]
AtOp(name) == pc = "recipe" /\ Len(trace) < Len(RecipeOps) /\ NextOp.op = name

\* the operation leaves `after` in the recipe's buffer
Apply(after) ==
    /\ wavetable' = after
    /\ trace' = Append(trace, [op |-> NextOp.op, arg |-> NextOp.arg,
                               before |-> wavetable, after |-> after])
    /\ UNCHANGED <<version, SAMPLES_PER_CYCLE, pc, cur, step, phase, samples, encoded,
                   data, dir, files, rng, entropy, noise, saved, stages, phases,
                   lastMk, err>>

\* the values of a sum of sine partials over the phase array
Partials(amp) ==
    {Ramp(a, b, SAMPLES_PER_CYCLE) :
        a \in -amp..amp, b \in 0..(IF amp = 1 THEN 1 ELSE MaxSlope)}

\* buf = np.zeros(SAMPLES_PER_CYCLE)
ZerosOp == AtOp("zeros") /\ Apply(Zeros(SAMPLES_PER_CYCLE))

\* v1: the buffer is an expression of np.sin over the phase array
SineOp == AtOp("sine") /\ \E p \in Partials(NextOp.arg) : Apply(p)

\* for h in ...: buf += amp * np.sin(2 * np.pi * h * phase)
AddOp == AtOp("add") /\ \E p \in Partials(NextOp.arg) : Apply(AddBuffers(wavetable, p))

\* buf = np.round(buf * L) / L
QuantizeOp == AtOp("quantize") /\ Apply(Quantize(wavetable, NextOp.arg))

\* v1: np.floor(... * 8) / 8
FloorOp == AtOp("floor") /\ Apply(QuantizeFloor(wavetable, NextOp.arg))

\* for i in range(0, N, downsample): buf[i:min(i+downsample, N)] = buf[i]
SampleHoldOp == AtOp("samplehold") /\ Apply(SampleHold(wavetable, NextOp.arg))

\* v1: np.sign(...)
SignOp == AtOp("sign") /\ Apply(Sign(wavetable))

\* save_wavetable(name, buf): the recipe's buffer goes straight to the save
SaveCall ==
    /\ pc = "recipe"
    /\ Len(trace) = Len(RecipeOps)
    /\ cur' = cur + 1
    /\ saved' = Append(saved, Catalog[cur + 1])
    /\ samples' = wavetable
    /\ encoded' = <<>>
    /\ data' = <<>>
    /\ stages' = <<"build">>
    /\ phases' = phases \cup {phase}
    /\ pc' = "save"
    /\ step' = 1
    /\ UNCHANGED <<trace, version, SAMPLES_PER_CYCLE, phase, wavetable, dir, files,
                   rng, entropy, noise, lastMk, err>>

RecipeNext ==
    \/ ZerosOp
    \/ SineOp
    \/ AddOp
    \/ QuantizeOp
    \/ FloorOp
    \/ SampleHoldOp
    \/ SignOp
    \/ SaveCall

RecipeSpec == RecipeInit /\ [][RecipeNext]_vars

\* ============================================================== properties
Range(seq) == {seq[i] : i \in 1..Len(seq)}
NoDuplicates(seq) == \A i, j \in 1..Len(seq) : i # j => seq[i] # seq[j]
Count(seq, x) == Cardinality({i \in 1..Len(seq) : seq[i] = x})
\* position of the first x in seq, 0 when there is none
FirstPos(seq, x) ==
    IF x \in Range(seq) THEN CHOOSE i \in 1..Len(seq) :
                                /\ seq[i] = x
                                /\ \A j \in 1..(i - 1) : seq[j] # x
    ELSE 0
CompleteFiles == {p \in DOMAIN files : files[p].closed}
Terminated == pc \in {"done", "aborted"}

\* C1: a complete run (generate_classic, then generate_unique) leaves exactly
\* 20 files whose two-digit prefixes are the 20 values 01..20, each once, and
\* no two save_wavetable calls ever name the same file.
C1_CatalogFiles ==
    /\ NoDuplicates(saved)
    /\ pc = "done" =>
         /\ Len(saved) = 20
         /\ Cardinality(DOMAIN files) = 20
         /\ CompleteFiles = DOMAIN files
         /\ {IndexPrefix(p[2]) : p \in DOMAIN files} = 1..20
         /\ \A p, q \in DOMAIN files : IndexPrefix(p[2]) = IndexPrefix(q[2]) => p = q

\* a finished run of the v2 script with all its files on disk
C1_Witness == pc = "done" /\ version = 2 /\ Cardinality(CompleteFiles) = 20

\* C2: a failure writing one entry's file is confined to that entry: when the
\* run has ended, every other entry's file has been written.
C2_FailureIsolated ==
    (Terminated /\ err \in {"OSError:open", "OSError:write"}) =>
        \A e \in Entries \ {cur} : FilePath(Catalog[e]) \in CompleteFiles

\* C3: every write to the output directory comes after os.makedirs has
\* ensured it in the same save_wavetable call; makedirs on a directory that
\* exists leaves it as it is and does not raise; and when makedirs raises the
\* run ends with no file written.
C3_DirectoryEnsured ==
    /\ CurStep \in {"open", "frames", "close", "write"} =>
         ("makedirs" \in Range(stages) /\ dir = "present")
    /\ DOMAIN files # {} => dir = "present"
    /\ lastMk.before = "present" => (lastMk.after = "present" /\ ~lastMk.raised)
    /\ lastMk.raised => (pc = "aborted" /\ DOMAIN files = {})

\* the second entry's makedirs found the directory the first one's files are in
C3_Witness ==
    /\ cur = 2
    /\ lastMk = [before |-> "present", after |-> "present", raised |-> FALSE]
    /\ "makedirs" \in Range(stages)
    /\ Cardinality(CompleteFiles) = 1

\* the file of the current entry has been written and closed
CurWritten == CurStep = "print" /\ CurPath \in CompleteFiles

\* C4 (as claimed): every written file has exactly the three chunks RIFF,
\* fmt and data, its data chunk declares and holds N * 4 bytes, and its
\* top-level size field is 36 + dataBytes.
C4_ThreeChunks36 ==
    \A p \in CompleteFiles :
        /\ files[p].chunks = <<"RIFF", "fmt ", "data">>
        /\ files[p].dataSize = SAMPLES_PER_CYCLE * 4
        /\ files[p].dataLen = SAMPLES_PER_CYCLE * 4
        /\ files[p].riffSize = 36 + files[p].dataSize

\* C4 (amended): in every written file the data chunk declares and holds
\* N * 4 bytes, one 32-bit value per sample in buffer order; the v2 script
\* writes the three chunks RIFF, fmt, data with top-level size 36 + dataBytes,
\* the v1 script writes four chunks (RIFF, an 18-byte fmt, fact, data) with
\* top-level size 50 + dataBytes.
C4_Container ==
    /\ \A p \in CompleteFiles :
        /\ files[p].dataSize = SAMPLES_PER_CYCLE * 4
        /\ files[p].dataLen = SAMPLES_PER_CYCLE * 4
        /\ version = 2 =>
             /\ files[p].chunks = <<"RIFF", "fmt ", "data">>
             /\ files[p].riffSize = 36 + files[p].dataSize
        /\ version = 1 =>
             /\ files[p].chunks = <<"RIFF", "fmt ", "fact", "data">>
             /\ files[p].riffSize = 50 + files[p].dataSize
    /\ CurWritten =>
        /\ Len(data) = SAMPLES_PER_CYCLE
        /\ files[CurPath].dataLen = 4 * Len(data)
        /\ \A i \in 1..Len(data) : data[i] = Float32(samples[i])

\* a v1 file of more than one sample, written whole
C4_Witness ==
    /\ version = 1
    /\ CurWritten
    /\ SAMPLES_PER_CYCLE >= 2
    /\ Len(data) = SAMPLES_PER_CYCLE
    /\ data[1] # data[2]

\* C5: the format chunk of every file declares floating-point samples, one
\* channel, 44100 Hz, 32 bits per sample, byte rate = sample rate * 4 and
\* block alignment 4.
C5_FloatFormat ==
    \A p \in DOMAIN files :
        files[p].chunks # <<>> =>
            /\ files[p].fmt.tag = WAVE_FORMAT_IEEE_FLOAT
            /\ files[p].fmt.channels = 1
            /\ files[p].fmt.rate = 44100
            /\ files[p].fmt.bits = 32
            /\ files[p].fmt.byteRate = files[p].fmt.rate * 4
            /\ files[p].fmt.blockAlign = 4

\* C6: noise is deterministic: every independent run (whatever entropy the
\* generator started from) gives each noise-based entry the same values.
C6_NoiseDeterministic ==
    \A e \in DOMAIN noise : \A ent \in 0..MaxEntropy :
        noise[e] = NoiseOfRun(version, e, SAMPLES_PER_CYCLE, ent, {})

\* C8: entries are independent: what an entry gets from the generator is what
\* it would get in the same process had any one earlier entry, or all of
\* them, not been built.
C8_EntriesIndependent ==
    \A e \in DOMAIN noise :
        \A skip \in {{}} \cup {{k} : k \in 1..(e - 1)} \cup {1..(e - 1)} :
            noise[e] = NoiseOfRun(version, e, SAMPLES_PER_CYCLE, entropy, skip)

\* C7: after normalization a buffer whose peak is positive has peak exactly 1,
\* every sample having been divided by the peak; an all-zero buffer is left
\* as it was.
C7_UnitPeak ==
    ("normalize" \in Range(stages) /\ Len(wavetable) > 0) =>
        IF FracLess(Zero, MaxAbs(wavetable))
        THEN /\ MaxAbs(samples) = One
             /\ \A i \in 1..Len(samples) :
                    samples[i] = FracDiv(wavetable[i], MaxAbs(wavetable))
        ELSE samples = wavetable

\* C9: entries are saved in increasing index order under the name
\* "<index>_<Name>.wav"; the file of entry i is complete before entry i+1 is
\* built; and within an entry the buffer is built, then normalized, then each
\* sample is encoded before it is written, so nothing un-normalized is written.
C9_PipelineOrder ==
    /\ saved = SubSeq(Catalog, 1, cur)
    /\ \A i \in 1..Len(saved) : IndexPrefix(saved[i]) = i
    /\ \A e \in 1..(cur - 1) : FilePath(Catalog[e]) \in CompleteFiles
    /\ DOMAIN files \subseteq {<<OUTPUT_DIR, Catalog[e], ".wav">> : e \in 1..cur}
    /\ stages # <<>> => stages[1] = "build"
    /\ Count(stages, "build") <= 1 /\ Count(stages, "normalize") <= 1
    /\ "encode" \in Range(stages) =>
         /\ "normalize" \in Range(stages)
         /\ FirstPos(stages, "normalize") < FirstPos(stages, "encode")
    /\ "write" \in Range(stages) =>
         /\ "encode" \in Range(stages)
         /\ FirstPos(stages, "encode") < FirstPos(stages, "write")
         /\ Count(stages, "write") <= Count(stages, "encode")
    /\ (cur >= 1 /\ CurPath \in DOMAIN files) => "normalize" \in Range(stages)

\* the second v2 entry being written, its first sample on disk, the first
\* entry's file complete
C9_Witness ==
    /\ version = 2
    /\ cur = 2
    /\ SAMPLES_PER_CYCLE >= 2
    /\ Len(data) = 1
    /\ "write" \in Range(stages)
    /\ FilePath(Catalog[1]) \in CompleteFiles

\* the phase array is N values, the i-th (from 0) equal to i/N, all below 1
PhaseIsClock(ph, n) ==
    /\ Len(ph) = n
    /\ ph[1] = Zero
    /\ \A i \in 1..n : ph[i] = Frac(i - 1, n) /\ FracLess(ph[i], One)

PhasesInUse == phases \cup (IF pc \in {"build", "save", "done"} THEN {phase} ELSE {})

Entry == IF pc = "recipe" THEN cur + 1 ELSE cur
OpNames == [i \in 1..Len(trace) |-> trace[i].op]
IsPrefix(a, b) == Len(a) <= Len(b) /\ a = SubSeq(b, 1, Len(a))
FracSub(x, y) == FracAdd(x, <<-y[1], y[2]>>)
FracLeq(x, y) == ~FracLess(y, x)
\* y is one of the values k/L
OnGrid(y, L) == (y[1] * L) % y[2] = 0
\* no value k/L is nearer to x than y is: |x - y| <= 1/(2L)
NearestOnGrid(x, y, L) == OnGrid(y, L) /\ FracLeq(FracAbs(FracSub(x, y)), <<1, 2 * L>>)
NineValues == {Frac(k, 4) : k \in -4..4}

\* C11: while a waveform is built, a check that all samples are finite follows
\* every operation of its recipe (a failed check ends the build with a
\* SynthesisError), so a buffer that reaches save_wavetable, and with it the
\* normalization and the write, has been verified after each operation.
C11_FiniteVerified ==
    pc = "save" =>
        \A i \in 1..Len(trace) :
            trace[i].op # "isfinite" =>
                (i < Len(trace) /\ trace[i + 1].op = "isfinite")

\* C12: a quantizing operation with level count L leaves a buffer of the same
\* length in which every sample is the value k/L nearest to the sample it
\* replaces (round(x*L)/L); with L = 4 and inputs between -1 and 1 every
\* result is one of the nine values -1, -0.75, ..., 0.75, 1.
C12_QuantizeNearest ==
    \A i \in 1..Len(trace) :
        trace[i].op \in {"quantize", "floor"} =>
            LET r == trace[i]
                L == r.arg
            IN  /\ Len(r.after) = Len(r.before)
                /\ \A j \in 1..Len(r.before) :
                      /\ NearestOnGrid(r.before[j], r.after[j], L)
                      /\ (L = 4 /\ FracLeq(FracAbs(r.before[j]), One)) =>
                            r.after[j] \in NineValues

\* C13: SampleHold(K) gives every sample the value the first sample of its
\* block (blocks start at 0, K, 2K, ...) had before the operation and keeps
\* the length of the buffer, a shorter last block included; every operation
\* of a recipe works on the buffer the one before it left, and the Binary
\* recipe that holds (generate_wavetables_v2.py) applies zeros, the harmonic
\* sum, the hold, the quantization and the aliasing partials in that order.
C13_SampleHold ==
    /\ \A i \in 1..Len(trace) :
          trace[i].op = "samplehold" =>
              LET r == trace[i]
                  K == r.arg
              IN  /\ Len(r.after) = Len(r.before)
                  /\ Len(r.after) = SAMPLES_PER_CYCLE
                  /\ \A j \in 1..Len(r.before) :
                        r.after[j] = r.before[((j - 1) \div K) * K + 1]
    /\ \A i \in 2..Len(trace) : trace[i].before = trace[i - 1].after
    /\ Len(trace) > 0 => wavetable = trace[Len(trace)].after
    /\ \A i, j \in 1..Len(trace) :
          (trace[i].op = "samplehold" /\ trace[j].op = "quantize") => i < j
    /\ (version = 2 /\ Entry = BINARY) =>
          /\ IsPrefix(OpNames, <<"zeros", "add", "samplehold", "quantize", "add">>)
          /\ pc = "save" => Len(trace) = 5 /\ samples = trace[5].after

\* the Binary buffer of 17 samples has been held in blocks of 8 (two whole
\* blocks and a last block of one sample) with different values inside a
\* block before the hold, then quantized, and handed to the save
C13_Witness ==
    /\ version = 2 /\ pc = "save" /\ cur = BINARY
    /\ SAMPLES_PER_CYCLE = 2 * DOWNSAMPLE + 1
    /\ Len(trace) = 5
    /\ trace[3].op = "samplehold"
    /\ trace[3].before[1] # trace[3].before[2]
    /\ trace[3].after[DOWNSAMPLE] = trace[3].before[1]
    /\ trace[3].after[DOWNSAMPLE + 1] = trace[3].before[DOWNSAMPLE + 1]
    /\ trace[3].after[DOWNSAMPLE + 1] # trace[3].after[DOWNSAMPLE]
    /\ trace[3].after[2 * DOWNSAMPLE + 1] = trace[3].before[2 * DOWNSAMPLE + 1]
    /\ trace[4].after # trace[4].before

====
